---- MODULE Spec2Model ----
(***************************************************************************)
(* The task API of src/main.py: four handlers (list, create, update,       *)
(* delete) over the "task" collection of a document store.                 *)
(*                                                                         *)
(* Python values that may be None are written as sequences of length at    *)
(* most one: None is <<>> and the value v is <<v>>.  A string such as a    *)
(* path id is a sequence of characters; a character is the number of its   *)
(* hexadecimal digit (0..15), or 16 for a character that is no hex digit.  *)
(*                                                                         *)
(* Spec handles the requests one by one, each handler as one step.         *)
(* ClockSpec is Spec with time passing between the requests.  ConcSpec     *)
(* runs the handlers of several workers at once, one storage call a step.  *)
(***************************************************************************)
EXTENDS Integers, Sequences, FiniteSets

VARIABLES
    db,        \* TRUE when the database handle is configured (db is not None)
    store,     \* the "task" collection: ObjectId -> stored document
    inc,       \* the ObjectId generator's counter
    now,       \* the clock
    req,       \* the request being handled
    resp,      \* the response to it
    created,   \* history: the ObjectIds ever inserted
    deleted,   \* history: the ObjectIds ever deleted
    pending    \* per worker: the handler suspended between two storage calls

vars == <<db, store, inc, now, req, resp, created, deleted, pending>>

\* ------------------------------------------------------------------ bounds

\* the number of tasks ever created
MaxTasks == 2

\* ------------------------------------------------------------------ values

\* the workers that handle requests at once
Workers == {1, 2}

\* the instants of the clock: a creation and a later update fall on different
\* ones
Instants == {0, 1}

None == <<>>
Some(v) == <<v>>

Titles == {"a", "b"}
Descriptions == {"d"}
Priorities == {"p"}

Optional(S) == {None} \cup {Some(v) : v \in S}

Fields == {"title", "description", "completed", "priority"}

\* class TaskCreate: title is required, the other two may be None
TaskCreate ==
    [title : {Some(t) : t \in Titles},
     description : Optional(Descriptions),
     priority : Optional(Priorities)]

\* class TaskUpdate: every field may be None
TaskUpdate ==
    [title : Optional(Titles),
     description : Optional(Descriptions),
     completed : Optional(BOOLEAN),
     priority : Optional(Priorities)]

\* ------------------------------------------------------------- identifiers

\* The ObjectId the store generates for its inc-th insert: 12 bytes, the
\* counter in the last one.
NewObjectId(n) == [j \in 1..12 |-> IF j = 12 THEN n % 256 ELSE 0]

\* str(oid): two hexadecimal digits per byte
Str(oid) ==
    [i \in 1..24 |->
        IF i % 2 = 1 THEN oid[(i + 1) \div 2] \div 16 ELSE oid[i \div 2] % 16]

\* a validation that looks at the length alone
IsValidOid_length(task_id) == Len(task_id) = 24

\* ObjectId(task_id) raises unless task_id is 24 hexadecimal digits
IsValidOid(task_id) ==
    /\ Len(task_id) = 24
    /\ \A i \in 1..24 : task_id[i] \in 0..15

ObjectId(task_id) ==
    [j \in 1..12 |-> 16 * task_id[2 * j - 1] + task_id[2 * j]]

\* path ids that are no ObjectId: too short, and 24 characters with a
\* character that is no hexadecimal digit
BadShort == <<10, 11, 12>>
BadChar == [i \in 1..24 |-> IF i = 24 THEN 16 ELSE 0]

TaskIds == {Str(NewObjectId(n)) : n \in 1..MaxTasks} \cup {BadShort, BadChar}

\* ------------------------------------------------------------ storage calls

\* collection.insert_one(doc) with the generated _id
InsertOne(st, oid, doc) ==
    [o \in DOMAIN st \cup {oid} |-> IF o = oid THEN doc ELSE st[o]]

\* collection.find_one({"_id": oid}): the document, or None
FindOne(st, oid) == IF oid \in DOMAIN st THEN Some(st[oid]) ELSE None

\* result.matched_count of update_one({"_id": oid}, ...)
MatchedCount(st, oid) == IF oid \in DOMAIN st THEN 1 ELSE 0

\* the document replaced by the update instead of merged with it
SetFields_replace(doc, fields) ==
    [k \in DOMAIN doc \cup DOMAIN fields |->
        IF k \in DOMAIN fields THEN fields[k]
        ELSE IF k \in Fields THEN None ELSE doc[k]]

\* the document after {"$set": fields}
SetFields(doc, fields) ==
    [k \in DOMAIN doc \cup DOMAIN fields |->
        IF k \in DOMAIN fields THEN fields[k] ELSE doc[k]]

\* update_one(..., upsert=True): a document is inserted when none matches
UpdateOne_upsert(st, oid, fields) ==
    [o \in DOMAIN st \cup {oid} |->
        IF o = oid
          THEN IF oid \in DOMAIN st
                 THEN SetFields(st[o], fields)
                 ELSE [k \in Fields \cup {"created_at", "updated_at"} |->
                          IF k \in DOMAIN fields THEN fields[k] ELSE None]
          ELSE st[o]]

\* collection.update_one({"_id": oid}, {"$set": fields})
UpdateOne(st, oid, fields) ==
    [o \in DOMAIN st |-> IF o = oid THEN SetFields(st[o], fields) ELSE st[o]]

\* a delete that never looks at deleted_count
DeletedCount_one(st, oid) == 1

\* result.deleted_count of delete_one({"_id": oid})
DeletedCount(st, oid) == IF oid \in DOMAIN st THEN 1 ELSE 0

\* collection.delete_one({"_id": oid})
DeleteOne(st, oid) == [o \in DOMAIN st \ {oid} |-> st[o]]

\* ---------------------------------------------------------------- responses

NoTask == <<>>

Response(op, status, kind, detail, task, tasks, calls) ==
    [op |-> op, status |-> status, kind |-> kind, detail |-> detail,
     task |-> task, tasks |-> tasks, calls |-> calls]

\* raise HTTPException(status_code=status, detail=detail)
HTTPException(op, status, detail, calls) ==
    Response(op, status, "error", detail, NoTask, {}, calls)

\* an exception no handler catches: the framework answers 500
Unhandled(op, calls) ==
    Response(op, 500, "unhandled", "Internal Server Error", NoTask, {}, calls)

NotConfigured(op) == HTTPException(op, 500, "Database not configured", <<>>)

\* doc.get(key, default)
Get(doc, key, default) == IF key \in DOMAIN doc THEN doc[key] ELSE default

\* the transport form of a stored document
doc_out(oid, doc) ==
    [id |-> Str(oid),
     title |-> Get(doc, "title", None),
     description |-> Get(doc, "description", None),
     completed |-> Get(doc, "completed", Some(FALSE)),
     priority |-> Get(doc, "priority", None),
     created_at |-> Get(doc, "created_at", None),
     updated_at |-> Get(doc, "updated_at", None)]

\* ----------------------------------------------------------------- requests

Request(op, task_id, payload) == [op |-> op, task_id |-> task_id, payload |-> payload]

NoRequest == Request("none", <<>>, <<>>)
NoResponse == Response("none", 0, "none", "", NoTask, {}, <<>>)

Requests ==
    {Request("list", <<>>, <<>>)}
      \cup {Request("create", <<>>, payload) : payload \in TaskCreate}
      \cup {Request("update", task_id, payload) : task_id \in TaskIds, payload \in TaskUpdate}
      \cup {Request("delete", task_id, <<>>) : task_id \in TaskIds}

\* ------------------------------------------------------------------- state

Init ==
    /\ db \in BOOLEAN
    /\ store = <<>>
    /\ inc = 0
    /\ now = 0
    /\ req = NoRequest
    /\ resp = NoResponse
    /\ created = {}
    /\ deleted = {}
    /\ pending = [w \in Workers |-> None]

\* the clock advances; a request is handled at one instant
Tick ==
    /\ req = NoRequest
    /\ now + 1 \in Instants
    /\ now' = now + 1
    /\ UNCHANGED <<db, store, inc, req, resp, created, deleted, pending>>

\* ---------------------------------------------------------------- handlers

\* t["id"] = str(t.get("_id")); t.pop("_id", None)
list_item(oid, doc) ==
    [k \in (DOMAIN doc) \cup {"id"} |-> IF k = "id" THEN Str(oid) ELSE doc[k]]

\* get_documents("task", {}): every document of the collection
get_documents(st) == {<<oid, st[oid]>> : oid \in DOMAIN st}

\* GET /api/tasks
list_response ==
    IF ~db
      THEN NotConfigured("list")
      ELSE Response("list", 200, "tasks", "", NoTask,
                    {list_item(t[1], t[2]) : t \in get_documents(store)},
                    <<"find">>)

\* a record built without the payload's priority
TaskSchema_no_priority(payload) ==
    [title |-> payload.title,
     description |-> payload.description,
     priority |-> None,
     completed |-> Some(FALSE)]

\* TaskSchema(title=..., description=..., priority=..., completed=False)
TaskSchema(payload) ==
    [title |-> payload.title,
     description |-> payload.description,
     priority |-> payload.priority,
     completed |-> Some(FALSE)]

\* create_document("task", data): the document that is inserted, stamped
\* with the time of the insert
create_document(data, t) ==
    [k \in (DOMAIN data) \cup {"created_at", "updated_at"} |->
        IF k \in {"created_at", "updated_at"} THEN Some(t) ELSE data[k]]

\* the collection after create_document("task", data)
create_store(payload) ==
    InsertOne(store, NewObjectId(inc + 1), create_document(TaskSchema(payload), now))

\* new_id, the string create_document returns
new_id == Str(NewObjectId(inc + 1))

\* doc = find_one({"_id": oid}); doc_out = {... doc.get(...) ...}: the mapped
\* document, or an AttributeError when find_one returned None
fetch_back(op, status, st, oid, calls) ==
    LET doc == FindOne(st, oid) IN
    IF doc = None
      THEN Unhandled(op, calls)
      ELSE Response(op, status, "task", "", Some(doc_out(oid, doc[1])), {}, calls)

\* POST /api/tasks
create_response(payload) ==
    IF ~db
      THEN NotConfigured("create")
      ELSE fetch_back("create", 201, create_store(payload), ObjectId(new_id),
                      <<"insert_one", "find_one">>)

\* payload.model_dump(): every field, None included
updates_all(payload) == payload

\* payload.model_dump(exclude_none=True): only the fields that are not None
updates(payload) ==
    [k \in {f \in DOMAIN payload : payload[f] # None} |-> payload[k]]

\* the update reaches update_one: storage configured, id well-formed, at
\* least one field provided
update_writes(task_id, payload) ==
    /\ db
    /\ IsValidOid(task_id)
    /\ DOMAIN updates(payload) # {}

\* the collection after the update
update_store(task_id, payload) ==
    IF update_writes(task_id, payload)
      THEN UpdateOne(store, ObjectId(task_id), updates(payload))
      ELSE store

\* update_task with the match looked up before the emptiness of the mapping
update_response_match_first(task_id, payload) ==
    IF ~db THEN NotConfigured("update")
    ELSE IF ~IsValidOid(task_id)
      THEN HTTPException("update", 400, "Invalid task id", <<>>)
    ELSE IF MatchedCount(store, ObjectId(task_id)) = 0
      THEN HTTPException("update", 404, "Task not found", <<"update_one">>)
    ELSE IF DOMAIN updates(payload) = {}
      THEN Response("update", 200, "message", "No changes", NoTask, {}, <<>>)
    ELSE fetch_back("update", 200, update_store(task_id, payload),
                    ObjectId(task_id), <<"update_one", "find_one">>)

\* update_task with the emptiness of the mapping looked at before the id
update_response_empty_first(task_id, payload) ==
    IF ~db THEN NotConfigured("update")
    ELSE IF DOMAIN updates(payload) = {}
      THEN Response("update", 200, "message", "No changes", NoTask, {}, <<>>)
    ELSE IF ~IsValidOid(task_id)
      THEN HTTPException("update", 400, "Invalid task id", <<>>)
    ELSE IF MatchedCount(store, ObjectId(task_id)) = 0
      THEN HTTPException("update", 404, "Task not found", <<"update_one">>)
    ELSE fetch_back("update", 200, update_store(task_id, payload),
                    ObjectId(task_id), <<"update_one", "find_one">>)

\* PATCH /api/tasks/{task_id}
update_response(task_id, payload) ==
    IF ~db THEN NotConfigured("update")
    ELSE IF ~IsValidOid(task_id)
      THEN HTTPException("update", 400, "Invalid task id", <<>>)
    ELSE IF DOMAIN updates(payload) = {}
      THEN Response("update", 200, "message", "No changes", NoTask, {}, <<>>)
    ELSE IF MatchedCount(store, ObjectId(task_id)) = 0
      THEN HTTPException("update", 404, "Task not found", <<"update_one">>)
    ELSE fetch_back("update", 200, update_store(task_id, payload),
                    ObjectId(task_id), <<"update_one", "find_one">>)

\* the delete reaches delete_one
delete_writes(task_id) == db /\ IsValidOid(task_id)

\* DELETE /api/tasks/{task_id}
delete_response(task_id) ==
    IF ~db THEN NotConfigured("delete")
    ELSE IF ~IsValidOid(task_id)
      THEN HTTPException("delete", 400, "Invalid task id", <<>>)
    ELSE IF DeletedCount(store, ObjectId(task_id)) = 0
      THEN HTTPException("delete", 404, "Task not found", <<"delete_one">>)
    ELSE Response("delete", 204, "empty", "", NoTask, {}, <<"delete_one">>)

\* ---------------------------------------------- requests handled one by one

\* a request arrives; a create is accepted while ids remain
receive ==
    /\ req = NoRequest
    /\ \E r \in Requests :
         /\ (r.op = "create" /\ db) => inc < MaxTasks
         /\ req' = r
    /\ UNCHANGED <<db, store, inc, now, resp, created, deleted, pending>>

list_tasks ==
    /\ req.op = "list" /\ resp = NoResponse
    /\ resp' = list_response
    /\ UNCHANGED <<db, store, inc, now, req, created, deleted, pending>>

create_task ==
    /\ req.op = "create" /\ resp = NoResponse
    /\ resp' = create_response(req.payload)
    /\ IF db
         THEN /\ store' = create_store(req.payload)
              /\ inc' = inc + 1
              /\ created' = created \cup {NewObjectId(inc + 1)}
         ELSE UNCHANGED <<store, inc, created>>
    /\ UNCHANGED <<db, now, req, deleted, pending>>

update_task ==
    /\ req.op = "update" /\ resp = NoResponse
    /\ resp' = update_response(req.task_id, req.payload)
    /\ store' = update_store(req.task_id, req.payload)
    /\ UNCHANGED <<db, inc, now, req, created, deleted, pending>>

delete_task ==
    /\ req.op = "delete" /\ resp = NoResponse
    /\ resp' = delete_response(req.task_id)
    /\ IF delete_writes(req.task_id)
         THEN /\ store' = DeleteOne(store, ObjectId(req.task_id))
              /\ deleted' = IF DeletedCount(store, ObjectId(req.task_id)) = 1
                              THEN deleted \cup {ObjectId(req.task_id)}
                              ELSE deleted
         ELSE UNCHANGED <<store, deleted>>
    /\ UNCHANGED <<db, inc, now, req, created, pending>>

\* the response is sent
respond ==
    /\ resp # NoResponse
    /\ req # NoRequest
    /\ req' = NoRequest
    /\ resp' = NoResponse
    /\ UNCHANGED <<db, store, inc, now, created, deleted, pending>>

\* the requests of one instant: no handler reads the clock but to stamp the
\* document it creates
Next ==
    \/ receive
    \/ list_tasks
    \/ create_task
    \/ update_task
    \/ delete_task
    \/ respond

Spec == Init /\ [][Next]_vars

\* the same requests with time passing between them
ClockNext ==
    \/ Tick
    \/ receive
    \/ list_tasks
    \/ create_task
    \/ update_task
    \/ delete_task
    \/ respond

ClockSpec == Init /\ [][ClockNext]_vars

\* ------------------------------------- requests whose storage calls interleave

\* the payloads of the interleaved requests
ConcTaskCreate == {p \in TaskCreate : p.description = None /\ p.priority = None}
ConcTaskUpdate == {p \in TaskUpdate : Cardinality(DOMAIN updates(p)) = 1 /\ p.priority = None}
ConcTaskIds == {task_id \in TaskIds : IsValidOid(task_id)}

\* what a handler holds between its two storage calls
Suspended(op, status, oid, calls, payload) ==
    Some([op |-> op, status |-> status, oid |-> oid, calls |-> calls,
          payload |-> payload])

\* create_task up to and including create_document; the handler ends before
\* it when storage is not configured
create_call(w, payload) ==
    /\ pending[w] = None
    /\ IF db
         THEN /\ inc < MaxTasks
              /\ store' = create_store(payload)
              /\ inc' = inc + 1
              /\ created' = created \cup {NewObjectId(inc + 1)}
              /\ pending' = [pending EXCEPT ![w] =
                                Suspended("create", 201, ObjectId(new_id),
                                          <<"insert_one", "find_one">>, payload)]
              /\ UNCHANGED resp
         ELSE /\ resp' = create_response(payload)
              /\ UNCHANGED <<store, inc, created, pending>>
    /\ UNCHANGED <<db, now, req, deleted>>

\* update_task up to and including update_one; the handler ends here unless
\* update_one matched a document
update_call(w, task_id, payload) ==
    /\ pending[w] = None
    /\ store' = update_store(task_id, payload)
    /\ IF update_writes(task_id, payload) /\ MatchedCount(store, ObjectId(task_id)) = 1
         THEN /\ pending' = [pending EXCEPT ![w] =
                                Suspended("update", 200, ObjectId(task_id),
                                          <<"update_one", "find_one">>, payload)]
              /\ UNCHANGED resp
         ELSE /\ resp' = update_response(task_id, payload)
              /\ UNCHANGED pending
    /\ UNCHANGED <<db, inc, now, req, created, deleted>>

\* delete_task: one storage call
delete_call(w, task_id) ==
    /\ pending[w] = None
    /\ resp' = delete_response(task_id)
    /\ IF delete_writes(task_id)
         THEN /\ store' = DeleteOne(store, ObjectId(task_id))
              /\ deleted' = IF DeletedCount(store, ObjectId(task_id)) = 1
                              THEN deleted \cup {ObjectId(task_id)}
                              ELSE deleted
         ELSE UNCHANGED <<store, deleted>>
    /\ UNCHANGED <<db, inc, now, req, created, pending>>

\* list_tasks: one storage call
list_call(w) ==
    /\ pending[w] = None
    /\ resp' = list_response
    /\ UNCHANGED <<db, store, inc, now, req, created, deleted, pending>>

\* the rest of create_task or update_task: find_one and the mapping
fetch(w) ==
    /\ pending[w] # None
    /\ LET h == pending[w][1] IN
       resp' = fetch_back(h.op, h.status, store, h.oid, h.calls)
    /\ pending' = [pending EXCEPT ![w] = None]
    /\ UNCHANGED <<db, store, inc, now, req, created, deleted>>

ConcCreate == \E w \in Workers : \E payload \in ConcTaskCreate : create_call(w, payload)
ConcUpdate ==
    \E w \in Workers : \E task_id \in ConcTaskIds : \E payload \in ConcTaskUpdate :
        update_call(w, task_id, payload)
ConcDelete == \E w \in Workers : \E task_id \in ConcTaskIds : delete_call(w, task_id)
ConcList == \E w \in Workers : list_call(w)
ConcFetch == \E w \in Workers : fetch(w)

ConcNext ==
    \/ ConcList
    \/ ConcCreate
    \/ ConcDelete
    \/ ConcUpdate
    \/ ConcFetch

ConcSpec == Init /\ [][ConcNext]_vars

\* ------------------------------------------------------------------ claims

\* the handler has run on req and resp is its response
Handled == req # NoRequest /\ resp # NoResponse

\* the fields a payload provides: those that are not None
Provided(payload) == {k \in Fields : payload[k] # None}

\* a syntactically valid storage identifier: 24 hexadecimal digits
WellFormed(task_id) ==
    /\ Len(task_id) = 24
    /\ \A i \in 1..Len(task_id) : task_id[i] >= 0 /\ task_id[i] < 16

\* the stored tasks a path id names
Matching(st, task_id) == {o \in DOMAIN st : Str(o) = task_id}

\* C1: a successful update with a non-empty payload gives each provided field
\* the payload's value, leaves the fields it does not provide as they were,
\* and leaves every other stored task unchanged.
C1_PartialUpdateFrame ==
    [][(update_task /\ Provided(req.payload) # {} /\ resp'.status = 200)
         => \E o \in Matching(store, req.task_id) :
              /\ DOMAIN store' = DOMAIN store
              /\ \A k \in Fields :
                    store'[o][k] = IF k \in Provided(req.payload)
                                     THEN req.payload[k] ELSE store[o][k]
              /\ \A other \in DOMAIN store \ {o} : store'[other] = store[other]]_vars

\* an update of completed alone has succeeded on a task whose description is
\* set, with another task in the store
C1_Witness ==
    /\ Handled
    /\ req.op = "update"
    /\ resp.status = 200 /\ resp.kind = "task"
    /\ Provided(req.payload) = {"completed"}
    /\ Cardinality(DOMAIN store) = 2
    /\ \E o \in Matching(store, req.task_id) :
          store[o].description # None /\ store[o].completed = Some(TRUE)

\* C2 as stated: an update with a well-formed id and no provided field leaves
\* the store as it is and answers {"message": "No changes"}.
C2_NoOpAlways ==
    [][(update_task /\ WellFormed(req.task_id) /\ Provided(req.payload) = {})
         => /\ store' = store
            /\ resp'.calls = <<>>
            /\ resp'.status = 200
            /\ resp'.kind = "message" /\ resp'.detail = "No changes"]_vars

\* C2 amended: with storage configured, an update with a well-formed id and
\* no provided field issues no storage call, leaves the store as it is and
\* answers {"message": "No changes"}.
C2_NoOpWhenConfigured ==
    [][(update_task /\ db /\ WellFormed(req.task_id) /\ Provided(req.payload) = {})
         => /\ store' = store
            /\ resp'.calls = <<>>
            /\ resp'.status = 200
            /\ resp'.kind = "message" /\ resp'.detail = "No changes"]_vars

\* an empty update of a stored task has been answered
C2_Witness ==
    /\ Handled
    /\ db
    /\ req.op = "update"
    /\ Provided(req.payload) = {}
    /\ Matching(store, req.task_id) # {}
    /\ resp.detail = "No changes"

\* C3: with storage configured, an update or delete whose path id is not a
\* syntactically valid identifier answers 400, whatever the payload, issues no
\* storage call and leaves the store unchanged.
C3_InvalidIdIs400 ==
    [][((update_task \/ delete_task) /\ db /\ ~WellFormed(req.task_id))
         => /\ resp'.status = 400
            /\ resp'.detail = "Invalid task id"
            /\ resp'.calls = <<>>
            /\ store' = store]_vars

\* an update that provides fields, with a 24-character id that holds a
\* character that is no hexadecimal digit, has been answered 400 while the
\* store holds tasks
C3_Witness ==
    /\ Handled
    /\ db
    /\ req.op = "update"
    /\ req.task_id = BadChar
    /\ Provided(req.payload) # {}
    /\ DOMAIN store # {}
    /\ resp.status = 400

\* what C4 says of one delete: 404 and no change when no task matches (so also
\* after a successful delete of the same id), 204 and exactly that task
\* removed when one does
DeleteContract ==
    /\ Matching(store, req.task_id) = {}
         => resp'.status = 404 /\ store' = store
    /\ \A o \in Matching(store, req.task_id) :
         /\ resp'.status = 204
         /\ DOMAIN store' = DOMAIN store \ {o}
         /\ \A other \in DOMAIN store' : store'[other] = store[other]
    /\ (\E o \in deleted : Str(o) = req.task_id) => resp'.status = 404

\* C4 as stated: every delete of a well-formed id meets DeleteContract.
C4_DeleteAlways ==
    [][(delete_task /\ WellFormed(req.task_id)) => DeleteContract]_vars

\* C4 amended: with storage configured, a delete of a well-formed id that
\* matches no stored task answers 404 and changes nothing, a delete of a stored
\* task answers 204 and removes exactly that task, and a delete of an id that
\* was deleted before answers 404.
C4_DeleteWhenConfigured ==
    [][(delete_task /\ db /\ WellFormed(req.task_id)) => DeleteContract]_vars

\* a second delete of an id has been answered 404 after a later create
C4_Witness ==
    /\ Handled
    /\ req.op = "delete"
    /\ \E o \in deleted : Str(o) = req.task_id
    /\ DOMAIN store # {}
    /\ resp.status = 404

\* what C5 says of the answer to a create of payload, others being the tasks
\* created apart from it
CreateContract(payload, others) ==
    /\ resp'.status = 201
    /\ resp'.kind = "task"
    /\ \A i \in 1..Len(resp'.task) :
         LET t == resp'.task[i] IN
         /\ Len(t.id) > 0
         /\ \A o \in others : Str(o) # t.id
         /\ t.completed = Some(FALSE)
         /\ t.title = payload.title
         /\ t.description = payload.description
         /\ t.priority = payload.priority

\* what C5 says of the answer to a list: every task created and not deleted
\* is in it
ListContract ==
    /\ resp'.status = 200
    /\ \A o \in created \ deleted : \E t \in resp'.tasks : t.id = Str(o)

\* C5: a create that reached the store answers 201 with a task whose id is a
\* non-empty string that no other created task has, whose completed is false
\* and whose title, description and priority are the payload's; and a list
\* holds every task created and not deleted.
C5_CreateAnswersTask ==
    [][\A w \in Workers :
         /\ (fetch(w) /\ pending[w] # None /\ pending[w][1].op = "create")
              => CreateContract(pending[w][1].payload, created \ {pending[w][1].oid})
         /\ (list_call(w) /\ db) => ListContract]_vars

\* C5 for requests handled one at a time, with storage configured: the same
\* statement, which holds when no other request's storage call falls between
\* the insert and the fetch-back.
C5_CreateAnswersTaskOneByOne ==
    [][/\ (create_task /\ db) => CreateContract(req.payload, created)
       /\ (list_tasks /\ db) => ListContract]_vars

\* what C6 says of one update: 404 and an unchanged store
UpdateMissContract ==
    /\ resp'.status = 404
    /\ resp'.detail = "Task not found"
    /\ store' = store

\* C6 as stated: every update with a well-formed id that matches no stored
\* task and a payload that provides a field answers 404 and changes nothing.
C6_NotFoundAlways ==
    [][(update_task /\ WellFormed(req.task_id) /\ Provided(req.payload) # {}
          /\ Matching(store, req.task_id) = {})
         => UpdateMissContract]_vars

\* C6 amended: with storage configured, such an update answers 404 and changes
\* nothing.
C6_NotFoundWhenConfigured ==
    [][(update_task /\ db /\ WellFormed(req.task_id) /\ Provided(req.payload) # {}
          /\ Matching(store, req.task_id) = {})
         => UpdateMissContract]_vars

\* an update of a deleted task has been answered 404 while another task is
\* stored
C6_Witness ==
    /\ Handled
    /\ db
    /\ req.op = "update"
    /\ Provided(req.payload) # {}
    /\ \E o \in deleted : Str(o) = req.task_id
    /\ DOMAIN store # {}
    /\ resp.status = 404

\* C7: after an update that succeeded on a stored task, that task's updated_at
\* is the time of the update.
C7_UpdatedAtIsTimeOfUpdate ==
    (Handled /\ req.op = "update" /\ resp.kind = "task")
      => \A o \in Matching(store, req.task_id) : store[o].updated_at = Some(now)

\* C8: an update that matched a stored record answers 200 with the record and
\* a create that inserted one answers 201 with it, however the storage calls
\* of other requests fall between its own.
C8_NoPartialFailure ==
    (resp.op \in {"create", "update"} /\ Len(resp.calls) = 2)
      => /\ resp.kind = "task"
         /\ resp.status = IF resp.op = "create" THEN 201 ELSE 200

\* C9: every stored task has a title that is not null and the id it was
\* created with, and no update adds, removes or renames a stored task.
C9_TitleAndIdKept ==
    /\ [](\A o \in DOMAIN store : store[o].title # None /\ o \in created)
    /\ []((Handled /\ req.op = "update" /\ resp.kind = "task")
            => \A i \in 1..Len(resp.task) :
                 resp.task[i].id = req.task_id /\ resp.task[i].title # None)
    /\ [][update_task => DOMAIN store' = DOMAIN store]_vars

\* an update that carries no title has succeeded
C9_Witness ==
    /\ Handled
    /\ req.op = "update"
    /\ req.payload.title = None
    /\ Provided(req.payload) # {}
    /\ resp.kind = "task"

\* C10: the response of an update is decided by the first check that fires, in
\* the order unconfigured (500), malformed id (400), empty payload (200 "No
\* changes"), no matching task (404); and with storage unconfigured every
\* handler answers 500 without a storage call.
C10_CheckOrder ==
    /\ (Handled /\ ~db)
         => /\ resp.status = 500
            /\ resp.detail = "Database not configured"
            /\ resp.calls = <<>>
    /\ (Handled /\ req.op = "update" /\ db)
         => IF ~WellFormed(req.task_id)
              THEN resp.status = 400
            ELSE IF Provided(req.payload) = {}
              THEN resp.status = 200 /\ resp.detail = "No changes"
            ELSE IF Matching(store, req.task_id) = {}
              THEN resp.status = 404
            ELSE resp.status = 200 /\ resp.kind = "task"

\* an empty update with a well-formed id that matches no task has been
\* answered 200
C10_Witness ==
    /\ Handled
    /\ db
    /\ req.op = "update"
    /\ WellFormed(req.task_id)
    /\ Provided(req.payload) = {}
    /\ Matching(store, req.task_id) = {}
    /\ DOMAIN store # {}
    /\ resp.status = 200

====
